---- MODULE Spec2Model ----
(***************************************************************************)
(* Voice control system: the command parser agent (catalog, alias table,   *)
(* exact and fuzzy resolution), the logging agent (session log) and the    *)
(* orchestrator that sequences capture, speaker tagging, transcription,    *)
(* parsing and logging.                                                    *)
(*                                                                         *)
(* Strings are sequences of one-character strings, so that lower(),        *)
(* strip(), substring containment and SequenceMatcher.ratio() are computed *)
(* rather than assumed.  Floats are exact rationals [n, d]: every score is *)
(* 2*M/T for small integers, and a correctly rounded division of small     *)
(* integers compares with the literals 0.6 and 0.8 as the rationals do.    *)
(***************************************************************************)
EXTENDS Integers, Sequences, FiniteSets, TLC

\* ------------------------------------------------------------------------
\* Bounds
\* ------------------------------------------------------------------------
\* longest raw input text enumerated over the whole alphabet
MaxLen == 2
\* largest catalog add_command may grow to
MaxCommands == 3
\* longest session log
MaxLog == 4
\* most invocations of process_voice_command in one session
MaxInvocations == 2

\* ------------------------------------------------------------------------
\* Characters and strings
\* ------------------------------------------------------------------------
\* "A" is an upper-case letter, " " is whitespace
Alphabet == {"a", "b", "A", " "}

LowerChar(c) == IF c = "A" THEN "a" ELSE c

IsSpace(c) == c = " "

\* str.lower()
Lower(s) == [i \in 1..Len(s) |-> LowerChar(s[i])]

\* str.strip(): drop leading and trailing whitespace
Strip(s) ==
  LET keep == {i \in 1..Len(s) : ~IsSpace(s[i])}
  IN  IF keep = {} THEN <<>>
      ELSE LET lo == CHOOSE i \in keep : \A j \in keep : i <= j
               hi == CHOOSE i \in keep : \A j \in keep : j <= i
           IN  SubSeq(s, lo, hi)

\* transcription['text'].lower().strip()
Normalize(s) == Strip(Lower(s))

\* x in y, for strings: x is a contiguous substring of y
Contains(y, x) ==
  \E i \in 1..(Len(y) - Len(x) + 1) : SubSeq(y, i, i + Len(x) - 1) = x

\* all strings over Alphabet of length at most n
RECURSIVE StringsUpTo(_)
StringsUpTo(n) ==
  IF n = 0 THEN {<<>>}
  ELSE LET shorter == StringsUpTo(n - 1)
       IN  shorter \cup {Append(s, c) : s \in {t \in shorter : Len(t) = n - 1}, c \in Alphabet}

\* ------------------------------------------------------------------------
\* Floats as exact rationals
\* ------------------------------------------------------------------------
RECURSIVE Gcd(_, _)
Gcd(x, y) == IF y = 0 THEN x ELSE Gcd(y, x % y)

Reduce(n, d, g) == [n |-> n \div g, d |-> d \div g]

Rat(n, d) == Reduce(n, d, Gcd(n, d))

Zero == [n |-> 0, d |-> 1]
One == [n |-> 1, d |-> 1]
\* the literal 0.8 of the containment floor
Floor08 == [n |-> 4, d |-> 5]
\* the default confidence_threshold 0.6
Default06 == [n |-> 3, d |-> 5]

RLt(x, y) == x.n * y.d < y.n * x.d
RLe(x, y) == x.n * y.d <= y.n * x.d
REq(x, y) == x.n * y.d = y.n * x.d

\* max(x, y) of Python: the first argument unless the second is greater
RMax(x, y) == IF RLt(x, y) THEN y ELSE x

\* ------------------------------------------------------------------------
\* difflib.SequenceMatcher(None, a, b).ratio()
\* ------------------------------------------------------------------------
\* the matching blocks a[i..i+k-1] = b[j..j+k-1], as <<i, j, k>>
Blocks(a, b) ==
  {blk \in (1..Len(a)) \X (1..Len(b)) \X (1..Len(a)) :
     /\ blk[1] + blk[3] - 1 <= Len(a)
     /\ blk[2] + blk[3] - 1 <= Len(b)
     /\ SubSeq(a, blk[1], blk[1] + blk[3] - 1) = SubSeq(b, blk[2], blk[2] + blk[3] - 1)}

\* the longest block; among the longest the one starting earliest in a, then
\* earliest in b; size 0 when there is none
Longest(blocks) ==
  IF blocks = {} THEN <<1, 1, 0>>
  ELSE CHOOSE x \in blocks :
         \A y \in blocks :
           \/ x[3] > y[3]
           \/ x[3] = y[3] /\ x[1] < y[1]
           \/ x[3] = y[3] /\ x[1] = y[1] /\ x[2] <= y[2]

\* find_longest_match
LongestMatch(a, b) == Longest(Blocks(a, b))

\* get_matching_blocks: total size of the blocks found by recursing on the
\* pieces left and right of the longest block blk
RECURSIVE MatchCount(_, _)
MatchAround(a, b, blk) ==
  IF blk[3] = 0 THEN 0
  ELSE blk[3]
       + MatchCount(SubSeq(a, 1, blk[1] - 1), SubSeq(b, 1, blk[2] - 1))
       + MatchCount(SubSeq(a, blk[1] + blk[3], Len(a)), SubSeq(b, blk[2] + blk[3], Len(b)))

MatchCount(a, b) ==
  IF Len(a) = 0 \/ Len(b) = 0 THEN 0 ELSE MatchAround(a, b, LongestMatch(a, b))

\* ratio(): 2.0 * matches / length, and 1.0 when both strings are empty
SeqRatio(a, b) ==
  IF Len(a) + Len(b) = 0 THEN One ELSE Rat(2 * MatchCount(a, b), Len(a) + Len(b))

\* ------------------------------------------------------------------------
\* Values
\* ------------------------------------------------------------------------
\* an optional string: Python's None or a str
NoneText == [none |-> TRUE, s |-> <<>>]
Some(s) == [none |-> FALSE, s |-> s]

\* truthiness of an optional string: not None and not ''
Truthy(o) == ~o.none /\ Len(o.s) > 0

\* a dict as its items in insertion order; a value without len() (None, a
\* number) where a dict was expected is kind "scalar"
Mapping(items) == [kind |-> "map", items |-> items]
EmptyDict == Mapping(<<>>)
Scalar == [kind |-> "scalar", items |-> <<>>]
Absent == [kind |-> "absent", items |-> <<>>]

Cmd(p, a) == [key |-> p, val |-> a]
Alias(f, t) == [key |-> f, val |-> t]

\* keys of a dict
Keys(d) == {d.items[i].key : i \in 1..Len(d.items)}

\* key in d
HasKey(d, k) == \E i \in 1..Len(d.items) : d.items[i].key = k

\* d[k], for a key of d
Get(d, k) == (d.items[CHOOSE i \in 1..Len(d.items) : d.items[i].key = k]).val

\* d[k] = v: an existing key keeps its position, a new key goes last
Put(d, k, v) ==
  IF HasKey(d, k)
  THEN Mapping([i \in 1..Len(d.items) |->
                  IF d.items[i].key = k THEN [key |-> k, val |-> v] ELSE d.items[i]])
  ELSE Mapping(Append(d.items, [key |-> k, val |-> v]))

\* a Resolution, the dict CommandParserAgent.process returns
Resolution(command, original, matched, confidence, match_type) ==
  [command |-> command, original_text |-> original, matched_text |-> matched,
   confidence |-> confidence, match_type |-> match_type]

\* placeholder where a call returned no Resolution
NoRes == Resolution("", <<>>, NoneText, Zero, "")

\* what a call returned: a value, None, True, False, or an exception raised
Ret(op, status, res) == [op |-> op, status |-> status, res |-> res]

\* a transcription dict: None, {} , a dict without 'text', or {'text': t}
TNone == [kind |-> "None", text |-> <<>>]
TEmpty == [kind |-> "empty", text |-> <<>>]
TNoText == [kind |-> "no_text", text |-> <<>>]
TText(t) == [kind |-> "text", text |-> t]

\* ------------------------------------------------------------------------
\* Inputs
\* ------------------------------------------------------------------------
sA == <<"a">>
sB == <<"b">>
sAB == <<"a", "b">>
sBA == <<"b", "a">>
sBB == <<"b", "b">>
sABA == <<"a", "b", "a">>
sLong == <<"a", "b", " ", "a", "b", " ", "b">>

\* the phrases of the shipped example: catalog phrase, alias, a misspelling
\* and an unrelated word
sMoveForward == <<"m", "o", "v", "e", " ", "f", "o", "r", "w", "a", "r", "d">>
sGoForward == <<"g", "o", " ", "f", "o", "r", "w", "a", "r", "d">>
sMoveForwrd == <<"m", "o", "v", "e", " ", "f", "o", "r", "w", "r", "d">>
sBanana == <<"b", "a", "n", "a", "n", "a">>

\* texts longer than MaxLen that the scenarios need
ScenarioTexts == {sABA, sGoForward, sMoveForwrd, sBanana}

Texts == StringsUpTo(MaxLen) \cup ScenarioTexts

Transcriptions == {TNone, TEmpty, TNoText} \cup {TText(t) : t \in Texts}

\* confidence_threshold settings
Thresholds == {Zero, Default06, One}

\* contents of the commands file
DocUnreadable == [kind |-> "unreadable", commands |-> Absent, aliases |-> Absent]
DocMalformed == [kind |-> "malformed", commands |-> Absent, aliases |-> Absent]
DocNotMapping == [kind |-> "not_mapping", commands |-> Absent, aliases |-> Absent]
DocEmpty == [kind |-> "empty", commands |-> Absent, aliases |-> Absent]
DocNoKeys == [kind |-> "mapping", commands |-> Absent, aliases |-> Absent]
DocChain ==
  [kind |-> "mapping",
   commands |-> Mapping(<<Cmd(sAB, "FORWARD"), Cmd(sBA, "BACKWARD")>>),
   aliases |-> Mapping(<<Alias(sA, sAB), Alias(sAB, sBA), Alias(sB, sBB), Alias(sBB, sAB)>>)]
DocRaw ==
  [kind |-> "mapping",
   commands |-> Mapping(<<Cmd(<<"A", "b">>, "FORWARD"), Cmd(<<" ", "b">>, "STOP")>>),
   aliases |-> Mapping(<<Alias(<<"A">>, sAB)>>)]
DocBoundary ==
  [kind |-> "mapping",
   commands |-> Mapping(<<Cmd(sLong, "LEFT")>>),
   aliases |-> Absent]
DocTie ==
  [kind |-> "mapping",
   commands |-> Mapping(<<Cmd(sAB, "FORWARD"), Cmd(sBA, "BACKWARD"), Cmd(sB, "STOP")>>),
   aliases |-> Mapping(<<>>)]
DocBadAliases ==
  [kind |-> "mapping",
   commands |-> Mapping(<<Cmd(sB, "STOP")>>),
   aliases |-> Scalar]
DocBadCommands ==
  [kind |-> "mapping",
   commands |-> Scalar,
   aliases |-> Mapping(<<Alias(sA, sB)>>)]

DocAliasesOnly ==
  [kind |-> "mapping",
   commands |-> Absent,
   aliases |-> Mapping(<<Alias(sA, sB)>>)]
DocScenario ==
  [kind |-> "mapping",
   commands |-> Mapping(<<Cmd(sMoveForward, "MOVE_FORWARD")>>),
   aliases |-> Mapping(<<Alias(sGoForward, sMoveForward)>>)]

ConfigDocs == {DocUnreadable, DocMalformed, DocNotMapping, DocNoKeys, DocChain,
               DocRaw, DocBoundary, DocTie, DocBadAliases, DocBadCommands,
               DocAliasesOnly, DocScenario, DocEmpty}

\* arguments of add_command
AddTexts == {<<>>, sB, <<" ", "A">>}
AddActions == {"RIGHT"}

\* ------------------------------------------------------------------------
\* State
\* ------------------------------------------------------------------------
AgentNames == {"logging", "input", "recognition", "parser", "speaker"}

\* the settings: logging.enabled, logging.log_transcripts,
\* logging.log_commands, speaker_id.enabled
Settings == [log_enabled : BOOLEAN, log_transcripts : BOOLEAN,
             log_commands : BOOLEAN, speaker_enabled : BOOLEAN]

\* the defaults of the agents' constructors
DefaultSettings == [log_enabled |-> TRUE, log_transcripts |-> TRUE,
                    log_commands |-> TRUE, speaker_enabled |-> TRUE]

\* the other fields of the dict process_voice_command returns
Result(text, speaker, success) ==
  [transcription |-> text, speaker |-> speaker, success |-> success]

NoResult == Result(<<>>, "", FALSE)

\* initialized[a]: BaseAgent.initialized of agent a
\* commands, aliases, fuzzy_matching, confidence_threshold: CommandParserAgent
\* config: the settings the orchestrator loaded
\* agents: the keys of VoiceControlOrchestrator.agents in insertion order
\* model: RecognitionAgent.model is set
\* log: the lines of the session log file of the registered LoggingAgent
\* ret: what the last call returned; result: the other fields of the dict
\* process_voice_command returned; calls: the stages its last invocation
\* called, in order; mark: the length of the log when that invocation began
VARIABLES initialized, commands, aliases, fuzzy_matching, confidence_threshold, config, agents, model, log, ret, result, calls, mark, running, pc, inflight, owners, begun

parserVars == <<commands, aliases, fuzzy_matching, confidence_threshold>>

\* the session of main(): self.running, the position of the caller, the
\* invocations of process_voice_command that have begun and not returned,
\* the invocation that appended each event, and how many have begun
sessionVars == <<running, pc, inflight, owners, begun>>

orchVars == <<config, agents, model, log, result, calls, mark, sessionVars>>

vars == <<initialized, commands, aliases, fuzzy_matching, confidence_threshold,
          config, agents, model, log, ret, result, calls, mark,
          running, pc, inflight, owners, begun>>

\* the session before main() entered a mode
SessionInit ==
  /\ running = FALSE
  /\ pc = "start"
  /\ inflight = <<>>
  /\ owners = <<>>
  /\ begun = 0

\* ------------------------------------------------------------------------
\* CommandParserAgent
\* ------------------------------------------------------------------------
\* the score as a bug would have it: the containment floor is left out
PhraseScore_NoFloor(text, command_text) == SeqRatio(text, command_text)

\* the containment floor as a bug would have it: a contained phrase counts
\* as a full match
PhraseScore_FloorOne(text, command_text) ==
  IF Contains(text, command_text) \/ Contains(command_text, text)
  THEN RMax(SeqRatio(text, command_text), One)
  ELSE SeqRatio(text, command_text)

\* the score of one catalog phrase: the ratio, floored at 0.8 when one
\* string contains the other
PhraseScore(text, command_text) ==
  IF Contains(text, command_text) \/ Contains(command_text, text)
  THEN RMax(SeqRatio(text, command_text), Floor08)
  ELSE SeqRatio(text, command_text)

\* the texts process can hand to _fuzzy_match, normalized and
\* alias-resolved, and the phrases a catalog can hold
MatchTexts ==
  {Normalize(t) : t \in Texts}
  \cup UNION {{doc.aliases.items[i].val : i \in 1..Len(doc.aliases.items)} :
                doc \in ConfigDocs}

Phrases ==
  {Lower(t) : t \in AddTexts} \cup UNION {Keys(doc.commands) : doc \in ConfigDocs}

\* the scores of those texts and phrases, computed once
PhraseScores ==
  [text \in MatchTexts |-> [command_text \in Phrases |-> PhraseScore(text, command_text)]]

\* the score _fuzzy_match computes for a phrase
Score(text, command_text) ==
  IF text \in MatchTexts /\ command_text \in Phrases
  THEN PhraseScores[text][command_text]
  ELSE PhraseScore(text, command_text)

\* the best match so far
Best(best_match, best_ratio) == [best_match |-> best_match, best_ratio |-> best_ratio]

\* the comparison as a bug would have it: a later phrase of equal score
\* replaces the best match
Better_OrEqual(best, command_text, ratio) ==
  IF RLe(best.best_ratio, ratio) THEN Best(Some(command_text), ratio) ELSE best

\* if ratio > best_ratio: the phrase becomes the best match
Better(best, command_text, ratio) ==
  IF RLt(best.best_ratio, ratio) THEN Best(Some(command_text), ratio) ELSE best

\* the loop of _fuzzy_match over the phrases still to visit
RECURSIVE FuzzyLoop(_, _, _)
FuzzyLoop(text, items, best) ==
  IF Len(items) = 0 THEN best
  ELSE FuzzyLoop(text, Tail(items),
                 Better(best, Head(items).key, Score(text, Head(items).key)))

\* the matcher as a bug would have it: the best ratio starts at 1.0
Parser_fuzzy_match_SeedOne(text) == FuzzyLoop(text, commands.items, Best(NoneText, One))

Parser_fuzzy_match(text) == FuzzyLoop(text, commands.items, Best(NoneText, Zero))

\* the alias step as a bug would have it: the alias target is looked up again
AliasResolve_Chained(text) ==
  IF HasKey(aliases, text)
  THEN IF HasKey(aliases, Get(aliases, text))
       THEN Get(aliases, Get(aliases, text))
       ELSE Get(aliases, text)
  ELSE text

\* the alias step as a bug would have it: the alias table is not consulted
AliasResolve_Off(text) == text

\* the alias step of process: one lookup
AliasResolve(text) == IF HasKey(aliases, text) THEN Get(aliases, text) ELSE text

\* the UNKNOWN resolution
Unknown(original) == Resolution("UNKNOWN", original, NoneText, Zero, "none")

\* the fuzzy resolution as a bug would have it: the confidence reported is
\* 1.0
Fuzzy_FullConfidence(original, fm) ==
  Resolution(Get(commands, fm.best_match.s), original, fm.best_match, One, "fuzzy")

\* the fuzzy resolution of the matcher's answer fm
Fuzzy(original, fm) ==
  Resolution(Get(commands, fm.best_match.s), original, fm.best_match, fm.best_ratio, "fuzzy")

\* the threshold test as a bug would have it: confidence > threshold
Accept_Strict(original, fm) ==
  IF Truthy(fm.best_match) /\ RLt(confidence_threshold, fm.best_ratio)
  THEN Fuzzy(original, fm)
  ELSE Unknown(original)

\* if best_match and confidence >= self.confidence_threshold
Accept(original, fm) ==
  IF Truthy(fm.best_match) /\ RLe(confidence_threshold, fm.best_ratio)
  THEN Fuzzy(original, fm)
  ELSE Unknown(original)

\* the fuzzy step of process
FuzzyStep(original, text) == Accept(original, Parser_fuzzy_match(text))

\* the resolution of a catalog key
Exact(original, text) ==
  Resolution(Get(commands, text), original, Some(text), One, "exact")

\* the matching steps as a bug would have them: the matcher is asked before
\* the exact lookup
Resolve_FuzzyFirst(original, text) ==
  IF fuzzy_matching /\ FuzzyStep(original, text).match_type = "fuzzy"
  THEN FuzzyStep(original, text)
  ELSE IF HasKey(commands, text) THEN Exact(original, text)
  ELSE Unknown(original)

\* the matching steps as a bug would have them: the fuzzy_matching setting
\* is not read
Resolve_IgnoreSetting(original, text) ==
  IF HasKey(commands, text) THEN Exact(original, text) ELSE FuzzyStep(original, text)

\* the matching steps of process on the normalized, alias-resolved text
Resolve(original, text) ==
  IF HasKey(commands, text) THEN Exact(original, text)
  ELSE IF fuzzy_matching THEN FuzzyStep(original, text)
  ELSE Unknown(original)

\* process as a bug would have it: the text is matched as given, without
\* lower() and strip()
Parser_process_Raw(transcription) ==
  IF ~initialized["parser"] THEN Ret("process", "None", NoRes)
  ELSE IF transcription.kind # "text" THEN Ret("process", "None", NoRes)
  ELSE Ret("process", "value",
           Resolve(transcription.text, AliasResolve(transcription.text)))

\* process as a bug would have it: the Resolution carries the normalized
\* text as original_text
Parser_process_NormalizedOriginal(transcription) ==
  IF ~initialized["parser"] THEN Ret("process", "None", NoRes)
  ELSE IF transcription.kind # "text" THEN Ret("process", "None", NoRes)
  ELSE Ret("process", "value",
           Resolve(Normalize(transcription.text),
                   AliasResolve(Normalize(transcription.text))))

\* process as a bug would have it: a dict without 'text' is read as an
\* empty text
Parser_process_Unchecked(transcription) ==
  IF ~initialized["parser"] THEN Ret("process", "None", NoRes)
  ELSE IF transcription.kind \in {"None", "empty"} THEN Ret("process", "None", NoRes)
  ELSE Ret("process", "value",
           Resolve(transcription.text, AliasResolve(Normalize(transcription.text))))

Parser_process(transcription) ==
  IF ~initialized["parser"] THEN Ret("process", "None", NoRes)
  ELSE IF transcription.kind # "text" THEN Ret("process", "None", NoRes)
  ELSE Ret("process", "value",
           Resolve(transcription.text, AliasResolve(Normalize(transcription.text))))

\* data.get(key, {})
OrEmpty(section) == IF section.kind = "absent" THEN EmptyDict ELSE section

\* both dicts assigned; len() of both decides the result
Loaded(c, a) == [commands |-> c, aliases |-> a, ok |-> c.kind = "map" /\ a.kind = "map"]

\* initialize on an agent whose dicts are c0 and a0: the dicts it leaves and
\* what it returns.  open() or safe_load() raising, or data without .get(),
\* fails before any assignment; len() of a value that is not sized fails
\* after both assignments
InitializeFrom(c0, a0, doc) ==
  IF doc.kind # "mapping"
  THEN [commands |-> c0, aliases |-> a0, ok |-> FALSE]
  ELSE Loaded(OrEmpty(doc.commands), OrEmpty(doc.aliases))

Parser_initialize(doc) == InitializeFrom(commands, aliases, doc)

Parser_add_command(text, action) == Put(commands, Lower(text), action)

InitParser ==
  /\ initialized = [a \in AgentNames |-> FALSE]
  /\ commands = EmptyDict
  /\ aliases = EmptyDict
  /\ fuzzy_matching \in BOOLEAN
  /\ confidence_threshold \in Thresholds
  /\ ret = Ret("init", "None", NoRes)
  /\ config = DefaultSettings
  /\ agents = <<>>
  /\ model = FALSE
  /\ log = <<>>
  /\ result = NoResult
  /\ calls = <<>>
  /\ mark = 0
  /\ SessionInit

ParserInitialize ==
  \E doc \in ConfigDocs :
    \E r \in {Parser_initialize(doc)} :
      /\ commands' = r.commands
      /\ aliases' = r.aliases
      /\ initialized' = [initialized EXCEPT !["parser"] = r.ok]
      /\ ret' = Ret("initialize", IF r.ok THEN "True" ELSE "False", NoRes)
      /\ UNCHANGED <<fuzzy_matching, confidence_threshold, orchVars>>

\* process as a bug would have it: a phrase that was matched fuzzily is
\* stored as an alias of the phrase it matched
ParserProcess_Learning ==
  \E t \in Transcriptions :
    \E r \in {Parser_process(t)} :
      /\ ret' = r
      /\ aliases' = IF r.status = "value" /\ r.res.match_type = "fuzzy"
                    THEN Put(aliases, Normalize(t.text), r.res.matched_text.s)
                    ELSE aliases
      /\ UNCHANGED <<initialized, commands, fuzzy_matching, confidence_threshold, orchVars>>

ParserProcess ==
  \E t \in Transcriptions :
    /\ ret' = Parser_process(t)
    /\ UNCHANGED <<initialized, parserVars, orchVars>>

ParserAddCommand ==
  \E text \in AddTexts, action \in AddActions :
    IF commands.kind = "map"
    THEN /\ HasKey(commands, Lower(text)) \/ Len(commands.items) < MaxCommands
         /\ commands' = Parser_add_command(text, action)
         /\ ret' = Ret("add_command", "None", NoRes)
         /\ UNCHANGED <<initialized, aliases, fuzzy_matching, confidence_threshold, orchVars>>
    ELSE /\ ret' = Ret("add_command", "raised", NoRes)
         /\ UNCHANGED <<initialized, parserVars, orchVars>>

\* shutdown as a bug would have it: the agent is also marked as not
\* initialized
ParserShutdown_Uninitializes ==
  /\ commands' = EmptyDict
  /\ aliases' = EmptyDict
  /\ initialized' = [initialized EXCEPT !["parser"] = FALSE]
  /\ ret' = Ret("shutdown", "None", NoRes)
  /\ UNCHANGED <<fuzzy_matching, confidence_threshold, orchVars>>

ParserShutdown ==
  /\ commands' = EmptyDict
  /\ aliases' = EmptyDict
  /\ ret' = Ret("shutdown", "None", NoRes)
  /\ UNCHANGED <<initialized, fuzzy_matching, confidence_threshold, orchVars>>

NextParser ==
  \/ ParserInitialize
  \/ ParserProcess
  \/ ParserAddCommand
  \/ ParserShutdown

SpecParser == InitParser /\ [][NextParser]_vars

\* ------------------------------------------------------------------------
\* LoggingAgent
\* ------------------------------------------------------------------------
\* one line of the session log: its type and the fields the properties read
Event(type, message, speaker_id, command) ==
  [type |-> type, message |-> message, speaker_id |-> speaker_id, command |-> command]

\* _write_log: the line is appended, or the failure is swallowed
Logging_write_log(lg, event, ok) == IF ok THEN Append(lg, event) ELSE lg

\* what LoggingAgent.process did: the log it leaves, the value it returns
\* and whether a line was written
Logged(lg, r, io) == [log |-> lg, r |-> r, io |-> io]

\* LoggingAgent.process as a bug would have it: either filter drops every
\* event
Logging_process_FilterAll(lg, event, ok) ==
  IF ~initialized["logging"] \/ ~config.log_enabled THEN Logged(lg, FALSE, "off")
  ELSE IF ~config.log_transcripts \/ ~config.log_commands
  THEN Logged(lg, TRUE, "filtered")
  ELSE Logged(Logging_write_log(lg, event, ok), TRUE, IF ok THEN "written" ELSE "failed")

\* LoggingAgent.process as a bug would have it: the enabled setting is not
\* read
Logging_process_IgnoresEnabled(lg, event, ok) ==
  IF ~initialized["logging"] THEN Logged(lg, FALSE, "off")
  ELSE IF event.type = "transcription" /\ ~config.log_transcripts
  THEN Logged(lg, TRUE, "filtered")
  ELSE IF event.type = "command" /\ ~config.log_commands
  THEN Logged(lg, TRUE, "filtered")
  ELSE Logged(Logging_write_log(lg, event, ok), TRUE, IF ok THEN "written" ELSE "failed")

\* LoggingAgent.process on the log lg
Logging_process(lg, event, ok) ==
  IF ~initialized["logging"] \/ ~config.log_enabled THEN Logged(lg, FALSE, "off")
  ELSE IF event.type = "transcription" /\ ~config.log_transcripts
  THEN Logged(lg, TRUE, "filtered")
  ELSE IF event.type = "command" /\ ~config.log_commands
  THEN Logged(lg, TRUE, "filtered")
  ELSE Logged(Logging_write_log(lg, event, ok), TRUE, IF ok THEN "written" ELSE "failed")

TranscriptionEvent(speaker_info) ==
  Event("transcription", "", IF speaker_info = "None" THEN "" ELSE speaker_info, "")

CommandEvent(command_data) == Event("command", "", "", command_data.command)

ErrorEvent(error_message) == Event("error", error_message, "", "")

\* speaker_info is "None" or the speaker_id of the dict
log_transcription(lg, speaker_info, ok) ==
  Logging_process(lg, TranscriptionEvent(speaker_info), ok)

log_command(lg, command_data, ok) ==
  Logging_process(lg, CommandEvent(command_data), ok)

log_error(lg, error_message, ok) ==
  Logging_process(lg, ErrorEvent(error_message), ok)

\* ------------------------------------------------------------------------
\* SpeakerIDAgent, RecognitionAgent, InputAgent
\* ------------------------------------------------------------------------
\* SpeakerIDAgent.process as a bug would have it: a disabled agent returns
\* None
Speaker_process_NoneWhenOff(audio_data, failed) ==
  IF ~initialized["speaker"] THEN "None"
  ELSE IF ~config.speaker_enabled THEN "None"
  ELSE IF audio_data = "empty" THEN "None"
  ELSE IF failed THEN "unknown"
  ELSE "speaker_1"

\* SpeakerIDAgent.process on captured audio: "None" or the speaker_id of the
\* dict it returns; failed is whether the feature extraction raises
Speaker_process(audio_data, failed) ==
  IF ~initialized["speaker"] THEN "None"
  ELSE IF ~config.speaker_enabled THEN "unknown"
  ELSE IF audio_data = "empty" THEN "None"
  ELSE IF failed THEN "unknown"
  ELSE "speaker_1"

\* the except clause of SpeakerIDAgent.process is taken
Speaker_raised(audio_data, failed) ==
  initialized["speaker"] /\ config.speaker_enabled /\ audio_data # "empty" /\ failed

\* RecognitionAgent.process: heard is what the model transcribes
Recognition_process(audio_data, heard) ==
  IF ~initialized["recognition"] \/ ~model THEN TNone
  ELSE IF audio_data = "empty" THEN TNone
  ELSE heard

\* InputAgent.process: captured is what the device delivers: "None" when the
\* recording raises, "empty" for a recording of no samples, else "audio"
Input_process(captured) ==
  IF ~initialized["input"] THEN "None" ELSE captured

\* ------------------------------------------------------------------------
\* VoiceControlOrchestrator
\* ------------------------------------------------------------------------
AgentOrder == <<"logging", "input", "recognition", "parser", "speaker">>

OrderOf(a) == CHOOSE i \in 1..Len(AgentOrder) : AgentOrder[i] = a

\* name in self.agents
Registered(a) == \E i \in 1..Len(agents) : agents[i] = a

\* self.agents[name] = agent, for the first k agents of initialize_agents
RECURSIVE RegisterUpTo(_, _, _)
RegisterUpTo(regs, i, k) ==
  IF i > k THEN regs
  ELSE RegisterUpTo(IF \E j \in 1..Len(regs) : regs[j] = AgentOrder[i]
                    THEN regs ELSE Append(regs, AgentOrder[i]), i + 1, k)

\* what the device can deliver
Captured == {"None", "empty", "audio"}

\* what the recognizer can return: None, or a stripped text
VoiceTexts == {<<"A">>, sB}
Heard == {TNone, TText(<<>>)} \cup {TText(t) : t \in VoiceTexts}

\* contents of config/commands.yaml when the orchestrator loads it
CommandFiles == {DocUnreadable, DocNoKeys, DocChain}

\* one call of a stage: what it returned and, for a call of the log sink,
\* whether a line was written
Call(stage, r, io) == [stage |-> stage, result |-> r, io |-> io]

Outcome(status, res, rest, cs, lg) ==
  [status |-> status, res |-> res, result |-> rest, calls |-> cs, log |-> lg]

\* return None after log_error(message) left the sink as w
ErrorLogged(cs, message, w) ==
  Outcome("None", NoRes, NoResult, Append(cs, Call("log_error", message, w.io)), w.log)

\* log_error(message) and return None
LogErrorAndReturn(lg, cs, message, ok) ==
  ErrorLogged(cs, message, log_error(lg, message, ok))

\* the except clause: log_error(str(e)) and return None; the lookup of the
\* logging agent raises again when it is not registered
Handler(lg, cs, message, ok) ==
  IF Registered("logging")
  THEN LogErrorAndReturn(lg, cs, message, ok)
  ELSE Outcome("raised", NoRes, NoResult, cs, lg)

\* a failed stage as a bug would have it: None is returned and no error is
\* handed to the log sink
Fail_NoLog(lg, cs, message, ok) == Outcome("None", NoRes, NoResult, cs, lg)

\* a failed stage: log_error(message) and return None
Fail(lg, cs, message, ok) ==
  IF Registered("logging")
  THEN LogErrorAndReturn(lg, cs, message, ok)
  ELSE Handler(lg, cs, "'logging'", ok)

\* the test of the transcription as a bug would have it: only None fails
TranscriptionFailed_NoneOnly(transcription) == transcription.kind = "None"

\* transcription is None or not transcription.get('text')
TranscriptionFailed(transcription) ==
  transcription.kind = "None" \/ Len(transcription.text) = 0

\* what the recognition stage returned, for the trace of calls
Kind(transcription) ==
  IF transcription.kind = "None" THEN "None"
  ELSE IF Len(transcription.text) = 0 THEN "empty"
  ELSE "text"

\* the last step as a bug would have it: a failed write of the command
\* event makes the invocation fail
Combine_FailOnWriteError(cs, speaker_info, transcription, res, wc) ==
  IF wc.io = "failed"
  THEN Outcome("None", NoRes, NoResult,
               Append(cs, Call("log_command", res.command, wc.io)), wc.log)
  ELSE Outcome("value", res,
               Result(transcription.text, speaker_info, res.command # "UNKNOWN"),
               Append(cs, Call("log_command", res.command, wc.io)), wc.log)

\* the result dict, after log_command left the sink as wc
Combine(cs, speaker_info, transcription, res, wc) ==
  Outcome("value", res,
          Result(transcription.text, speaker_info, res.command # "UNKNOWN"),
          Append(cs, Call("log_command", res.command, wc.io)), wc.log)

\* the last steps as a bug would have them: an UNKNOWN resolution is not
\* handed to the log sink
LogCommand_SkipUnknown(cs, speaker_info, transcription, lg, command_result, ok2) ==
  IF command_result.status = "None"
  THEN Fail(lg, Append(cs, Call("parser", "None", "")), "Command parsing failed", ok2)
  ELSE IF command_result.res.command = "UNKNOWN"
  THEN Outcome("value", command_result.res,
               Result(transcription.text, speaker_info, FALSE),
               Append(cs, Call("parser", command_result.status, "")), lg)
  ELSE Combine(Append(cs, Call("parser", command_result.status, "")), speaker_info,
               transcription, command_result.res,
               log_command(lg, command_result.res, ok2))

\* the last steps as a bug would have them: an UNKNOWN resolution is a
\* failure like None
LogCommand_UnknownFails(cs, speaker_info, transcription, lg, command_result, ok2) ==
  IF command_result.status = "None" \/ command_result.res.command = "UNKNOWN"
  THEN Fail(lg, Append(cs, Call("parser", command_result.status, "")),
            "Command parsing failed", ok2)
  ELSE Combine(Append(cs, Call("parser", command_result.status, "")), speaker_info,
               transcription, command_result.res,
               log_command(lg, command_result.res, ok2))

\* the steps after the parser returned command_result: a None is an error,
\* anything else is logged as a command and returned
LogCommand(cs, speaker_info, transcription, lg, command_result, ok2) ==
  IF command_result.status = "None"
  THEN Fail(lg, Append(cs, Call("parser", "None", "")), "Command parsing failed", ok2)
  ELSE Combine(Append(cs, Call("parser", command_result.status, "")), speaker_info,
               transcription, command_result.res,
               log_command(lg, command_result.res, ok2))

\* step 4, after log_transcription left the sink as wt
Parse(cs, speaker_info, transcription, wt, ok2) ==
  IF ~Registered("parser")
  THEN Handler(wt.log, Append(cs, Call("log_transcription", speaker_info, wt.io)),
               "'parser'", ok2)
  ELSE LogCommand(Append(cs, Call("log_transcription", speaker_info, wt.io)),
                  speaker_info, transcription, wt.log,
                  Parser_process(transcription), ok2)

\* the steps after the transcription as a bug would have them: the parser
\* is called first and the transcription is logged once it returned a value
ParseAndLog_ResolveFirst(cs, speaker_info, transcription, ok1, ok2) ==
  IF Parser_process(transcription).status = "None"
  THEN Fail(log, Append(cs, Call("parser", "None", "")), "Command parsing failed", ok1)
  ELSE Combine(Append(Append(cs, Call("parser", "value", "")),
                      Call("log_transcription", speaker_info,
                           log_transcription(log, speaker_info, ok1).io)),
               speaker_info, transcription, Parser_process(transcription).res,
               log_command(log_transcription(log, speaker_info, ok1).log,
                           Parser_process(transcription).res, ok2))

\* the steps of process_voice_command after the transcription: log it, parse
\* it, log the command and return the result
ParseAndLog(cs, speaker_info, transcription, ok1, ok2) ==
  IF ~Registered("logging") THEN Handler(log, cs, "'logging'", ok1)
  ELSE Parse(cs, speaker_info, transcription,
             log_transcription(log, speaker_info, ok1), ok2)

\* the test of step 3 on what the recognizer returned
Transcribe(cs, speaker_info, transcription, ok1, ok2) ==
  IF TranscriptionFailed(transcription)
  THEN Fail(log, Append(cs, Call("recognition", Kind(transcription), "")),
            "Transcription failed", ok1)
  ELSE ParseAndLog(Append(cs, Call("recognition", Kind(transcription), "")),
                   speaker_info, transcription, ok1, ok2)

\* step 3, after the speaker stage returned speaker_info
Recognize(cs, audio_data, speaker_info, heard, ok1, ok2) ==
  IF ~Registered("recognition") THEN Handler(log, cs, "'recognition'", ok1)
  ELSE Transcribe(cs, speaker_info, Recognition_process(audio_data, heard), ok1, ok2)

\* the call of the speaker stage: what it returned and whether it did so
\* from its except clause
SpeakerCall(audio_data, speaker_failed) ==
  Call("speaker", Speaker_process(audio_data, speaker_failed),
       IF Speaker_raised(audio_data, speaker_failed) THEN "error" ELSE "")

\* step 2
Identify(cs, audio_data, speaker_failed, heard, ok1, ok2) ==
  IF ~Registered("speaker") THEN Handler(log, cs, "'speaker'", ok1)
  ELSE Recognize(Append(cs, SpeakerCall(audio_data, speaker_failed)), audio_data,
                 Speaker_process(audio_data, speaker_failed), heard, ok1, ok2)

\* step 1 as a bug would have it: the value the input stage returned is
\* not tested
Capture_NoCheck(audio_data, speaker_failed, heard, ok1, ok2) ==
  Identify(<<Call("input", audio_data, "")>>, audio_data, speaker_failed, heard,
           ok1, ok2)

\* the test of step 1 on what the input stage returned
Capture(audio_data, speaker_failed, heard, ok1, ok2) ==
  IF audio_data = "None"
  THEN Fail(log, <<Call("input", "None", "")>>, "Audio capture failed", ok1)
  ELSE Identify(<<Call("input", audio_data, "")>>, audio_data, speaker_failed, heard,
                ok1, ok2)

\* process_voice_command: captured, speaker_failed and heard are what the
\* device, the speaker features and the recognizer deliver, ok1 and ok2
\* whether the first and the second write to the log file succeed
process_voice_command(captured, speaker_failed, heard, ok1, ok2) ==
  IF ~Registered("input") THEN Handler(log, <<>>, "'input'", ok1)
  ELSE Capture(Input_process(captured), speaker_failed, heard, ok1, ok2)

Init ==
  /\ initialized = [a \in AgentNames |-> FALSE]
  /\ commands = EmptyDict
  /\ aliases = EmptyDict
  /\ fuzzy_matching = TRUE
  /\ confidence_threshold = Default06
  /\ config \in Settings
  /\ agents = <<>>
  /\ model = FALSE
  /\ log = <<>>
  /\ ret = Ret("init", "None", NoRes)
  /\ result = NoResult
  /\ calls = <<>>
  /\ mark = 0
  /\ SessionInit

\* what initialize_agents returns, given what each agent's initialize
\* returned: a False of the speaker agent is only a warning
InitializeReturns(logging_ok, input_ok, model_ok, parser_ok, speaker_ok) ==
  logging_ok /\ input_ok /\ model_ok /\ parser_ok

\* initialize_agents as a bug would have it: every agent is constructed and
\* initialized, whatever the agents before it returned
LastConstructed_All(logging_ok, input_ok, model_ok, parser_ok) == 5

\* the position in AgentOrder of the last agent initialize_agents constructs:
\* the first mandatory agent that fails, or the speaker agent
LastConstructed(logging_ok, input_ok, model_ok, parser_ok) ==
  IF ~logging_ok THEN 1
  ELSE IF ~input_ok THEN 2
  ELSE IF ~model_ok THEN 3
  ELSE IF ~parser_ok THEN 4
  ELSE 5

\* initialize_agents: each agent is constructed, registered and initialized
\* in turn; the first of the four mandatory agents that fails ends the call.
\* The outcome of a step is drawn only when the call reaches the step: the
\* write of session_start when the log directory was made, an agent's
\* initialize when the agents before it returned True
InitializeAgents ==
  \E dir_ok \in BOOLEAN :
    \E logging_ok \in {~config.log_enabled \/ dir_ok},
       write_ok \in IF config.log_enabled /\ dir_ok THEN BOOLEAN ELSE {TRUE} :
    \E input_ok \in IF logging_ok THEN BOOLEAN ELSE {FALSE} :
    \E model_ok \in IF input_ok THEN BOOLEAN ELSE {FALSE} :
    \E doc \in IF model_ok THEN CommandFiles ELSE {DocUnreadable} :
    \E parsed \in {InitializeFrom(EmptyDict, EmptyDict, doc)} :
    \E k \in {LastConstructed(logging_ok, input_ok, model_ok, parsed.ok)} :
        /\ agents' = RegisterUpTo(agents, 1, k)
        /\ initialized' = [a \in AgentNames |->
                             IF OrderOf(a) > k THEN initialized[a]
                             ELSE CASE a = "logging" -> logging_ok
                                    [] a = "input" -> input_ok
                                    [] a = "recognition" -> model_ok
                                    [] a = "parser" -> parsed.ok
                                    [] OTHER -> TRUE]
        /\ log' = IF config.log_enabled /\ dir_ok
                  THEN Logging_write_log(<<>>, Event("session_start", "", "", ""), write_ok)
                  ELSE <<>>
        /\ model' = IF k >= 3 THEN model_ok ELSE model
        /\ commands' = IF k >= 4 THEN parsed.commands ELSE commands
        /\ aliases' = IF k >= 4 THEN parsed.aliases ELSE aliases
        /\ ret' = Ret("initialize_agents",
                       IF InitializeReturns(logging_ok, input_ok, model_ok, parsed.ok, TRUE)
                       THEN "True" ELSE "False", NoRes)
        /\ result' = NoResult
        /\ calls' = <<>>
        /\ mark' = 0
        /\ UNCHANGED <<fuzzy_matching, confidence_threshold, config, sessionVars>>

\* the coordinator as a bug would have it: a failed invocation marks the
\* input agent as not initialized
ProcessVoiceCommand_Fatal ==
  \E captured \in Captured, speaker_failed \in BOOLEAN, heard \in Heard,
     ok1, ok2 \in BOOLEAN :
    \E o \in {process_voice_command(captured, speaker_failed, heard, ok1, ok2)} :
        /\ Len(log) + 2 <= MaxLog
        /\ log' = o.log
        /\ ret' = Ret("process_voice_command", o.status, o.res)
        /\ result' = o.result
        /\ calls' = o.calls
        /\ mark' = Len(log)
        /\ initialized' = IF o.status = "None"
                          THEN [initialized EXCEPT !["input"] = FALSE]
                          ELSE initialized
        /\ UNCHANGED <<parserVars, config, agents, model, sessionVars>>

ProcessVoiceCommand ==
  /\ Len(log) + 2 <= MaxLog
  /\ \E captured \in Captured, speaker_failed \in BOOLEAN, heard \in Heard,
        ok1, ok2 \in BOOLEAN :
      \E o \in {process_voice_command(captured, speaker_failed, heard, ok1, ok2)} :
        /\ log' = o.log
        /\ ret' = Ret("process_voice_command", o.status, o.res)
        /\ result' = o.result
        /\ calls' = o.calls
        /\ mark' = Len(log)
        /\ UNCHANGED <<initialized, parserVars, config, agents, model, sessionVars>>

\* the loop of shutdown as a bug would have it: it ends at the first agent
\* whose shutdown raises
ShutdownCalls_StopsAtError(regs, raised) ==
  [i \in 1..(IF \E j \in 1..Len(regs) : regs[j] \in raised
             THEN CHOOSE j \in 1..Len(regs) :
                    /\ regs[j] \in raised
                    /\ \A h \in 1..(j - 1) : regs[h] \notin raised
             ELSE Len(regs)) |->
     Call("shutdown", regs[i], IF regs[i] \in raised THEN "error" ELSE "")]

\* the loop of shutdown over self.agents: one call per registered agent, in
\* registration order; raised are the agents whose shutdown raises, which
\* the try/except inside the loop catches
ShutdownCalls(regs, raised) ==
  [i \in 1..Len(regs) |->
     Call("shutdown", regs[i], IF regs[i] \in raised THEN "error" ELSE "")]

\* shutdown: every registered agent's shutdown, in registration order; no
\* shutdown of the five agents raises
Shutdown ==
  \E write_ok \in BOOLEAN :
    /\ Len(log) + 1 <= MaxLog
    /\ log' = IF Registered("logging") /\ config.log_enabled /\ initialized["logging"]
              THEN Logging_write_log(log, Event("session_end", "", "", ""), write_ok)
              ELSE log
    /\ model' = IF Registered("recognition") THEN FALSE ELSE model
    /\ commands' = IF Registered("parser") THEN EmptyDict ELSE commands
    /\ aliases' = IF Registered("parser") THEN EmptyDict ELSE aliases
    /\ ret' = Ret("shutdown", "None", NoRes)
    /\ result' = NoResult
    /\ calls' = ShutdownCalls(agents, {})
    /\ mark' = 0
    /\ UNCHANGED <<initialized, fuzzy_matching, confidence_threshold, config, agents,
                   sessionVars>>

Next ==
  \/ InitializeAgents
  \/ ProcessVoiceCommand
  \/ Shutdown

Spec == Init /\ [][Next]_vars

\* ------------------------------------------------------------------------
\* main() and run_interactive: one session, its invocations step by step
\* ------------------------------------------------------------------------
\* an invocation that has begun: the length of the log when it began, the
\* lines it has yet to hand to the log file and the outcome it returns
Invocation(id, o) ==
  [id |-> id, mark |-> Len(log), todo |-> SubSeq(o.log, Len(log) + 1, Len(o.log)),
   out |-> o]

\* main(): initialize_agents is called once, after construction
StartAgents ==
  /\ pc = "start"
  /\ ret.op = "init"
  /\ InitializeAgents

\* main() enters run_interactive after initialize_agents returned True
RunInteractive ==
  /\ pc = "start"
  /\ ret = Ret("initialize_agents", "True", NoRes)
  /\ running' = TRUE
  /\ pc' = "prompt"
  /\ UNCHANGED <<initialized, parserVars, config, agents, model, log, ret, result,
                 calls, mark, inflight, owners, begun>>

\* main(): load_config returned False; main returns 1 from its try block
LoadConfigFails ==
  /\ pc = "start"
  /\ ret.op = "init"
  /\ pc' = "exit"
  /\ UNCHANGED <<initialized, parserVars, config, agents, model, log, ret, result,
                 calls, mark, running, inflight, owners, begun>>

\* main() enters run_single_command after initialize_agents returned True
RunSingleCommand ==
  /\ pc = "start"
  /\ ret = Ret("initialize_agents", "True", NoRes)
  /\ pc' = "single"
  /\ UNCHANGED <<initialized, parserVars, config, agents, model, log, ret, result,
                 calls, mark, running, inflight, owners, begun>>

\* the caller as a bug would have it: process_voice_command is also called
\* while an invocation has not returned
BeginInvocation_Reentrant ==
  /\ (pc \in {"prompt", "call"} /\ running) \/ pc = "single"
  /\ begun < MaxInvocations
  /\ Len(log) + 3 <= MaxLog
  /\ \E captured \in Captured, speaker_failed \in BOOLEAN, heard \in Heard,
        ok1, ok2 \in BOOLEAN :
       inflight' = Append(inflight,
                          Invocation(begun + 1,
                                     process_voice_command(captured, speaker_failed,
                                                           heard, ok1, ok2)))
  /\ begun' = begun + 1
  /\ pc' = IF pc = "single" THEN "single_call" ELSE "call"
  /\ UNCHANGED <<initialized, parserVars, config, agents, model, log, ret, result,
                 calls, mark, running, owners>>

\* the loop of run_interactive, after input() returned, or
\* run_single_command: the caller enters process_voice_command.  The log
\* has room for the events of the invocation and for the session end
BeginInvocation ==
  /\ (pc = "prompt" /\ running) \/ pc = "single"
  /\ begun < MaxInvocations
  /\ Len(log) + 3 <= MaxLog
  /\ \E captured \in Captured, speaker_failed \in BOOLEAN, heard \in Heard,
        ok1, ok2 \in BOOLEAN :
       inflight' = Append(inflight,
                          Invocation(begun + 1,
                                     process_voice_command(captured, speaker_failed,
                                                           heard, ok1, ok2)))
  /\ begun' = begun + 1
  /\ pc' = IF pc = "single" THEN "single_call" ELSE "call"
  /\ UNCHANGED <<initialized, parserVars, config, agents, model, log, ret, result,
                 calls, mark, running, owners>>

\* an invocation in flight hands its next event to the log file
WriteEvent ==
  \E k \in 1..Len(inflight) :
    /\ Len(inflight[k].todo) > 0
    /\ log' = Append(log, Head(inflight[k].todo))
    /\ owners' = Append(owners, inflight[k].id)
    /\ inflight' = [inflight EXCEPT ![k].todo = Tail(@)]
    /\ UNCHANGED <<initialized, parserVars, config, agents, model, ret, result, calls,
                   mark, running, pc, begun>>

\* inflight without its k-th invocation
Without(k) == SubSeq(inflight, 1, k - 1) \o SubSeq(inflight, k + 1, Len(inflight))

\* an invocation in flight returns: to the loop, which prompts again, or to
\* run_single_command, which returns to main
ReturnInvocation ==
  \E k \in 1..Len(inflight) :
    /\ Len(inflight[k].todo) = 0
    /\ inflight' = Without(k)
    /\ pc' = IF pc = "single_call" THEN "exit"
             ELSE IF Len(inflight) = 1 THEN "prompt" ELSE "call"
    /\ ret' = Ret("process_voice_command", inflight[k].out.status, inflight[k].out.res)
    /\ result' = inflight[k].out.result
    /\ calls' = inflight[k].out.calls
    /\ mark' = inflight[k].mark
    /\ UNCHANGED <<initialized, parserVars, config, agents, model, log, running, owners,
                   begun>>

\* Ctrl+C at the prompt or during an invocation: process_voice_command
\* catches Exception only, run_interactive catches the interrupt and stops
KeyboardInterrupt ==
  /\ pc \in {"prompt", "call"}
  /\ running' = FALSE
  /\ pc' = "stopped"
  /\ inflight' = <<>>
  /\ UNCHANGED <<initialized, parserVars, config, agents, model, log, ret, result,
                 calls, mark, owners, begun>>

\* input() raises EOFError at the prompt: run_interactive catches only
\* KeyboardInterrupt, so the error escapes to the except clause of main
EndOfInput ==
  /\ pc = "prompt"
  /\ pc' = "exit"
  /\ UNCHANGED <<initialized, parserVars, config, agents, model, log, ret, result,
                 calls, mark, running, inflight, owners, begun>>

\* Ctrl+C outside run_interactive, while main loads, initializes or runs the
\* single command: KeyboardInterrupt is not an Exception, so no except
\* clause of main or of process_voice_command catches it; it leaves the try
\* block of main through the finally clause
InterruptEscapes ==
  /\ pc \in {"start", "single", "single_call"}
  /\ ret.op # "shutdown"
  /\ pc' = "exit"
  /\ inflight' = <<>>
  /\ UNCHANGED <<initialized, parserVars, config, agents, model, log, ret, result,
                 calls, mark, running, owners, begun>>

\* main() has left its try block: run_interactive returned after an
\* interrupt, a mode returned or an error escaped, or initialize_agents
\* returned False
Ended ==
  \/ pc \in {"stopped", "exit"}
  \/ ret = Ret("initialize_agents", "False", NoRes)

\* main() as a bug would have it: shutdown is called after run_interactive
\* returned, not in a finally clause
Finally_OnlyAfterLoop ==
  /\ pc = "stopped"
  /\ ret.op # "shutdown"
  /\ Shutdown

\* the finally clause of main(): shutdown, once
Finally ==
  /\ Ended
  /\ ret.op # "shutdown"
  /\ Shutdown

NextSession ==
  \/ LoadConfigFails
  \/ StartAgents
  \/ RunInteractive
  \/ RunSingleCommand
  \/ EndOfInput
  \/ InterruptEscapes
  \/ BeginInvocation
  \/ WriteEvent
  \/ ReturnInvocation
  \/ KeyboardInterrupt
  \/ Finally

SpecSession == Init /\ [][NextSession]_vars

\* a finally clause that is reached is executed
SpecSessionLive == SpecSession /\ WF_vars(Finally)

\* ------------------------------------------------------------------------
\* Properties of CommandParserAgent.process
\* ------------------------------------------------------------------------
\* the last call was process and returned a Resolution
Resolved == ret.op = "process" /\ ret.status = "value"

\* the text the last process call matched: normalized, alias-resolved
MatchedInput == AliasResolve(Normalize(ret.res.original_text))

\* C1 as stated: whenever the input text is itself a key of the catalog the
\* resolution is exact, has confidence 1.0 and carries the action of that key,
\* whatever the alias table holds
C1_ExactForEveryCatalogKey ==
  (Resolved /\ HasKey(commands, ret.res.original_text)) =>
     /\ ret.res.match_type = "exact"
     /\ REq(ret.res.confidence, One)
     /\ ret.res.command = Get(commands, ret.res.original_text)

\* C1 amended: whenever the normalized input, after the single alias
\* substitution, is a key of the catalog, the resolution is exact with
\* confidence 1.0, names that key and carries its action, whatever the fuzzy
\* setting, the threshold and the other phrases
C1_ExactOutranksFuzzy ==
  (Resolved /\ HasKey(commands, MatchedInput)) =>
     /\ ret.res.match_type = "exact"
     /\ REq(ret.res.confidence, One)
     /\ ret.res.matched_text = Some(MatchedInput)
     /\ ret.res.command = Get(commands, MatchedInput)

\* an exact resolution reached with fuzzy matching on, threshold 0 and another
\* phrase in the catalog that the matcher would score
C1_Witness ==
  /\ Resolved
  /\ HasKey(commands, MatchedInput)
  /\ ret.res.match_type = "exact"
  /\ fuzzy_matching
  /\ confidence_threshold = Zero
  /\ \E k \in Keys(commands) :
       k # MatchedInput /\ RLt(Zero, PhraseScore(MatchedInput, k))

\* C2: in every Resolution, confidence is 1.0 exactly when the match type is
\* exact, and match type none comes with confidence 0.0 and command UNKNOWN
C2_ConfidenceInvariant ==
  Resolved =>
     /\ REq(ret.res.confidence, One) <=> ret.res.match_type = "exact"
     /\ ret.res.match_type = "none" =>
          REq(ret.res.confidence, Zero) /\ ret.res.command = "UNKNOWN"
     /\ ret.res.match_type \in {"exact", "fuzzy", "none"}

\* a fuzzy resolution of an input that one catalog phrase contains, after
\* add_command changed the catalog
C2_Witness ==
  /\ Resolved
  /\ ret.res.match_type = "fuzzy"
  /\ REq(ret.res.confidence, Floor08)
  /\ Contains(ret.res.matched_text.s, MatchedInput)
  /\ \E k \in Keys(commands) : k \in {Lower(t) : t \in AddTexts}

\* C8: when the alias table maps the normalized input A to B and B to C, the
\* resolution is the one of B: exact on B when B is a catalog key, and never
\* exact when it is not (a fuzzy match is scored against B)
C8_AliasSingleHop ==
  LET A == Normalize(ret.res.original_text)
      B == Get(aliases, A)
  IN  (Resolved /\ HasKey(aliases, A) /\ HasKey(aliases, B)) =>
         /\ HasKey(commands, B) =>
              /\ ret.res.match_type = "exact"
              /\ ret.res.matched_text = Some(B)
              /\ ret.res.command = Get(commands, B)
         /\ ~HasKey(commands, B) =>
              /\ ret.res.match_type # "exact"
              /\ ret.res.match_type = "fuzzy" =>
                   ret.res.confidence = PhraseScore(B, ret.res.matched_text.s)

\* input A with A -> B and B -> C in the alias table, B and C both catalog
\* keys with different actions: the resolution carries the action of B
C8_Witness ==
  LET A == Normalize(ret.res.original_text)
      B == Get(aliases, A)
      C == Get(aliases, B)
  IN  /\ Resolved
      /\ HasKey(aliases, A)
      /\ HasKey(aliases, B)
      /\ A # B /\ B # C
      /\ HasKey(commands, B)
      /\ HasKey(commands, C)
      /\ Get(commands, B) # Get(commands, C)
      /\ ret.res.command = Get(commands, B)

\* C9 as stated: with fuzzy matching on and no exact match, the resolution is
\* fuzzy when the best score is at least the threshold and UNKNOWN when it is
\* strictly below
C9_FuzzyIffScoreReachesThreshold ==
  (Resolved /\ fuzzy_matching /\ ~HasKey(commands, MatchedInput)) =>
     IF RLe(confidence_threshold, Parser_fuzzy_match(MatchedInput).best_ratio)
     THEN ret.res.match_type = "fuzzy"
     ELSE ret.res.match_type = "none" /\ ret.res.command = "UNKNOWN"

\* C9 amended: with fuzzy matching on and no exact match, the resolution is
\* fuzzy exactly when the matcher found a non-empty phrase and its score is
\* at least the threshold, and UNKNOWN otherwise; a score equal to the
\* threshold 0.6 is fuzzy, every lower score is UNKNOWN
C9_ThresholdBoundary ==
  (Resolved /\ fuzzy_matching /\ ~HasKey(commands, MatchedInput)) =>
     LET fm == Parser_fuzzy_match(MatchedInput)
     IN  /\ ret.res.match_type = "fuzzy" <=>
              (Truthy(fm.best_match) /\ ~RLt(fm.best_ratio, confidence_threshold))
         /\ ret.res.match_type # "fuzzy" =>
              ret.res.match_type = "none" /\ ret.res.command = "UNKNOWN"
         /\ (confidence_threshold = Default06 /\ Truthy(fm.best_match)
               /\ REq(fm.best_ratio, Default06)) =>
              ret.res.match_type = "fuzzy" /\ REq(ret.res.confidence, Default06)
         /\ (confidence_threshold = Default06 /\ RLt(fm.best_ratio, Default06)) =>
              ret.res.match_type = "none"

\* threshold 0.6 and a best score of exactly 0.6: a fuzzy resolution
C9_Witness ==
  /\ Resolved
  /\ fuzzy_matching
  /\ confidence_threshold = Default06
  /\ ~HasKey(commands, MatchedInput)
  /\ REq(Parser_fuzzy_match(MatchedInput).best_ratio, Default06)
  /\ ret.res.match_type = "fuzzy"

\* C10: an input whose normalized text is empty resolves to UNKNOWN with match
\* type none and confidence 0.0, for every catalog
C10_EmptyTextIsNoMatch ==
  (Resolved /\ Normalize(ret.res.original_text) = <<>>) =>
     /\ ret.res.match_type = "none"
     /\ REq(ret.res.confidence, Zero)
     /\ ret.res.command = "UNKNOWN"

\* one string is a substring of the other
OneContainsOther(x, y) == Contains(x, y) \/ Contains(y, x)

\* C11: for the text of a process call and every catalog phrase such that one
\* is a substring of the other, the score of that phrase is at least 0.8 and
\* at least the similarity ratio, and the best score _fuzzy_match returns for
\* that text is at least 0.8
C11_ContainmentFloor ==
  Resolved =>
     \A k \in Keys(commands) :
        OneContainsOther(MatchedInput, k) =>
           /\ RLe(Floor08, PhraseScore(MatchedInput, k))
           /\ RLe(SeqRatio(MatchedInput, k), PhraseScore(MatchedInput, k))
           /\ RLe(Floor08, Parser_fuzzy_match(MatchedInput).best_ratio)

\* a fuzzy resolution at exactly 0.8 of a non-empty text contained in a
\* phrase whose similarity ratio alone is below 0.8
C11_Witness ==
  /\ Resolved
  /\ ret.res.match_type = "fuzzy"
  /\ Len(MatchedInput) > 0
  /\ OneContainsOther(MatchedInput, ret.res.matched_text.s)
  /\ RLt(SeqRatio(MatchedInput, ret.res.matched_text.s), Floor08)
  /\ REq(ret.res.confidence, Floor08)

SameNormalizedCalls ==
  /\ Resolved
  /\ ret'.op = "process"
  /\ ret'.status = "value"
  /\ Normalize(ret'.res.original_text) = Normalize(ret.res.original_text)
  /\ UNCHANGED <<commands, aliases>>

\* C13 as stated: two process calls whose texts have the same normalized
\* form, with no change of catalog or alias table in between, return
\* Resolutions identical in every field
C13_IdenticalInEveryField == [][SameNormalizedCalls => ret'.res = ret.res]_vars

\* C13 amended: such calls return Resolutions with the same command,
\* matched_text, confidence and match_type; original_text is each call's own
\* text as given, so the Resolutions are identical when the texts are
C13_Step ==
  SameNormalizedCalls =>
     /\ ret'.res.command = ret.res.command
     /\ ret'.res.matched_text = ret.res.matched_text
     /\ ret'.res.confidence = ret.res.confidence
     /\ ret'.res.match_type = ret.res.match_type
     /\ ret'.res.original_text = ret.res.original_text => ret'.res = ret.res

C13_IdempotentResolution == [][C13_Step]_vars

\* a fuzzy resolution after which a call with a different text of the same
\* normalized form can follow
C13_Witness ==
  /\ Resolved
  /\ ret.res.match_type = "fuzzy"
  /\ ENABLED (/\ ParserProcess
              /\ SameNormalizedCalls
              /\ ret'.res.original_text # ret.res.original_text)

\* the shipped example is loaded: one phrase, one alias, threshold 0.6, fuzzy
\* matching on
ScenarioLoaded ==
  /\ commands = DocScenario.commands
  /\ aliases = DocScenario.aliases
  /\ confidence_threshold = Default06
  /\ fuzzy_matching

C18_KeysNormalizedAtLoad ==
  (ret.op = "initialize" /\ ret.status = "True") =>
     \A k \in Keys(commands) \cup Keys(aliases) : k = Normalize(k)

\* C19: the phrase add_command stores is lowercase and has no leading or
\* trailing whitespace
C19_AddCommandNormalizes ==
  [][(ret'.op = "add_command" /\ ret'.status = "None") =>
        \A k \in Keys(commands') \ Keys(commands) : k = Normalize(k)]_vars

\* the Resolution r of the text carries the text as received, and an exact
\* one the normalized, alias-substituted text as matched_text
CarriesRawText(text, r) ==
  /\ r.original_text = text
  /\ r.match_type = "exact" =>
       /\ r.matched_text = Some(AliasResolve(Normalize(text)))
       /\ HasKey(commands, r.matched_text.s)

\* C31: every Resolution process returns has the text of the transcription,
\* as received, as original_text, and an Exact one the normalized,
\* alias-substituted text as matched_text.  process changes no field of the
\* parser, so every catalog is met in a state that another operation
\* produced, and every text is resolved in those states
C31_OriginalTextIsRaw ==
  ret.op # "process" =>
     \A text \in Texts :
        \A r \in {Parser_process(TText(text))} :
           r.status = "value" => CarriesRawText(text, r.res)

\* an exact resolution of a text that lower(), strip() and the alias table
\* all changed
C31_Witness ==
  /\ Resolved
  /\ ret.res.match_type = "exact"
  /\ Normalize(ret.res.original_text) # ret.res.original_text
  /\ HasKey(aliases, Normalize(ret.res.original_text))
  /\ ret.res.matched_text.s # Normalize(ret.res.original_text)

\* the entries of the catalog other than the one of key k
Others(d, k) == SelectSeq(d.items, LAMBDA e : e.key # k)

\* add_command(text, action) led from the catalog c0 to the catalog c1: the
\* entry of the lowercased text holds the action, no other entry changed
Added(c0, c1, text, action) ==
  /\ HasKey(c1, Lower(text))
  /\ Get(c1, Lower(text)) = action
  /\ Cardinality({i \in 1..Len(c1.items) : c1.items[i].key = Lower(text)}) = 1
  /\ Others(c1, Lower(text)) = Others(c0, Lower(text))

\* C32: after add_command(p, a) the catalog holds a for the lowercased p
\* and no other entry has changed, the alias table is unchanged, and
\* resolving p yields the action a
C32_LastWriteWins ==
  [][(ret'.op = "add_command" /\ ret'.status = "None") =>
        \E text \in AddTexts, action \in AddActions :
           /\ Added(commands, commands', text, action)
           /\ UNCHANGED aliases
           /\ initialized["parser"] =>
                (Parser_process(TText(text)).res.command)' = action]_vars

\* every well-formed transcription resolves to UNKNOWN
AllUnknown ==
  \A text \in Texts :
     Parser_process(TText(text)) = Ret("process", "value", Unknown(text))

\* the catalog and the alias table are empty and the agent is initialized
Cleared ==
  /\ commands = EmptyDict
  /\ aliases = EmptyDict
  /\ initialized["parser"]

\* a shutdown empties both tables and leaves the flag; a process call
\* leaves all three
C33_Step ==
  /\ ret'.op = "shutdown" =>
       /\ commands' = EmptyDict
       /\ aliases' = EmptyDict
       /\ UNCHANGED initialized
  /\ ret'.op = "process" => UNCHANGED <<commands, aliases, initialized>>

C39_ProcessIsReadOnly ==
  [][ret'.op = "process" =>
        UNCHANGED <<commands, aliases, fuzzy_matching, confidence_threshold,
                    initialized>>]_vars

\* a fuzzy resolution on a catalog that has an alias table
C39_Witness ==
  /\ Resolved
  /\ ret.res.match_type = "fuzzy"
  /\ Len(commands.items) >= 2
  /\ Len(aliases.items) >= 1

\* C22: an initialize call that returns False leaves the catalog and the
\* alias table as they were
C22_FailedInitializeKeepsCatalog ==
  [][(ret'.op = "initialize" /\ ret'.status = "False") =>
        UNCHANGED <<commands, aliases>>]_vars

\* a source that is read and parsed and lacks 'commands' or 'aliases', the
\* other, if present, being a mapping
LacksKey(doc) ==
  /\ doc.kind \in {"mapping", "empty"}
  /\ doc.commands = Absent \/ doc.aliases = Absent
  /\ doc.commands.kind # "scalar"
  /\ doc.aliases.kind # "scalar"

\* C23: initialize returns False for an unreadable or malformed source, and
\* True with the corresponding set empty for a readable source that lacks
\* 'commands' or 'aliases', a source with no keys at all included
C23_InitializeOutcome ==
  \A doc \in ConfigDocs :
     /\ doc.kind \in {"unreadable", "malformed"} => ~Parser_initialize(doc).ok
     /\ LacksKey(doc) =>
          /\ Parser_initialize(doc).ok
          /\ doc.commands = Absent => Parser_initialize(doc).commands = EmptyDict
          /\ doc.aliases = Absent => Parser_initialize(doc).aliases = EmptyDict

\* C25: a fuzzy Resolution names a non-empty matched_text that is a key of
\* the catalog, carries the action of that key, and its confidence is the
\* matcher's best score, which is above 0 and at least the threshold
C25_FuzzyNamesCatalogKey ==
  (Resolved /\ ret.res.match_type = "fuzzy") =>
     /\ Truthy(ret.res.matched_text)
     /\ HasKey(commands, ret.res.matched_text.s)
     /\ ret.res.command = Get(commands, ret.res.matched_text.s)
     /\ ret.res.matched_text = Parser_fuzzy_match(MatchedInput).best_match
     /\ ret.res.confidence = Parser_fuzzy_match(MatchedInput).best_ratio
     /\ RLt(Zero, ret.res.confidence)
     /\ RLe(confidence_threshold, ret.res.confidence)

\* a fuzzy resolution at threshold 0 whose confidence is below 0.6
C25_Witness ==
  /\ Resolved
  /\ ret.res.match_type = "fuzzy"
  /\ confidence_threshold = Zero
  /\ RLt(ret.res.confidence, Default06)

\* C26: with fuzzy matching off a Resolution is exact when the normalized,
\* alias-substituted text is a key of the catalog and the UNKNOWN resolution
\* otherwise, never fuzzy
C26_FuzzyOffNeverFuzzy ==
  (Resolved /\ ~fuzzy_matching) =>
     /\ ret.res.match_type # "fuzzy"
     /\ HasKey(commands, MatchedInput) => ret.res = Exact(ret.res.original_text, MatchedInput)
     /\ ~HasKey(commands, MatchedInput) => ret.res = Unknown(ret.res.original_text)

\* an UNKNOWN resolution with fuzzy matching off of a text for which the
\* matcher has a phrase that reaches the threshold
C26_Witness ==
  /\ Resolved
  /\ ~fuzzy_matching
  /\ ret.res.command = "UNKNOWN"
  /\ Truthy(Parser_fuzzy_match(MatchedInput).best_match)
  /\ RLe(confidence_threshold, Parser_fuzzy_match(MatchedInput).best_ratio)

\* the score the matcher gives the i-th phrase of the catalog
ScoreAt(text, i) == PhraseScore(text, commands.items[i].key)

\* C27: the phrase _fuzzy_match returns for the text of a process call is
\* the first phrase, in insertion order, that reaches the maximal score, and
\* no phrase is returned only when every score is 0
C27_FirstMaximalPhraseWins ==
  Resolved =>
     /\ \A i \in 1..Len(commands.items) :
          RLe(ScoreAt(MatchedInput, i), Parser_fuzzy_match(MatchedInput).best_ratio)
     /\ Parser_fuzzy_match(MatchedInput).best_match.none =>
          \A i \in 1..Len(commands.items) : REq(ScoreAt(MatchedInput, i), Zero)
     /\ ~Parser_fuzzy_match(MatchedInput).best_match.none =>
          \E i \in 1..Len(commands.items) :
             /\ commands.items[i].key = Parser_fuzzy_match(MatchedInput).best_match.s
             /\ REq(ScoreAt(MatchedInput, i), Parser_fuzzy_match(MatchedInput).best_ratio)
             /\ \A j \in 1..(i - 1) :
                  RLt(ScoreAt(MatchedInput, j), Parser_fuzzy_match(MatchedInput).best_ratio)

\* a fuzzy resolution naming the earlier of two phrases that both reach the
\* maximal score
C27_Witness ==
  /\ Resolved
  /\ ret.res.match_type = "fuzzy"
  /\ \E i, j \in 1..Len(commands.items) :
       /\ i < j
       /\ commands.items[i].key = ret.res.matched_text.s
       /\ REq(ScoreAt(MatchedInput, i), ret.res.confidence)
       /\ REq(ScoreAt(MatchedInput, j), ret.res.confidence)

\* ------------------------------------------------------------------------
\* Properties of VoiceControlOrchestrator.process_voice_command
\* ------------------------------------------------------------------------
\* the last call was process_voice_command
Invoked == ret.op = "process_voice_command"

\* the lines the last invocation appended to the session log
Appended == SubSeq(log, mark + 1, Len(log))

\* how many lines of a type a piece of the log holds
CountType(lg, type) == Cardinality({i \in 1..Len(lg) : lg[i].type = type})

\* how often the last invocation called a stage
CountCalls(stage) == Cardinality({i \in 1..Len(calls) : calls[i].stage = stage})

\* the line a call of the log sink wrote, if it wrote one
LineOf(c, event) == IF c.io = "written" THEN <<event>> ELSE <<>>

\* the log sink writes every type: enabled, initialized, no filter set
SinkOpen ==
  /\ initialized["logging"]
  /\ config.log_enabled
  /\ config.log_transcripts
  /\ config.log_commands

\* the capture stage of the last invocation returned no audio
CaptureFailed == Invoked /\ Len(calls) >= 1 /\ calls[1] = Call("input", "None", "")

\* capture returned audio and the transcription stage returned None or ''
TranscriptionFailure ==
  /\ Invoked
  /\ Len(calls) >= 3
  /\ calls[1] = Call("input", "audio", "")
  /\ calls[3].stage = "recognition"
  /\ calls[3].result \in {"None", "empty"}

\* capture returned audio and the transcription stage a non-empty text
Transcribed ==
  /\ Invoked
  /\ Len(calls) >= 3
  /\ calls[1] = Call("input", "audio", "")
  /\ calls[3] = Call("recognition", "text", "")

\* C3 as stated: when capture returns no audio the outcome is None, exactly
\* one error event and no transcription or command event is appended to the
\* session log, and no speaker, recognition or parser stage is called
C3_CaptureFailureAppendsOneError ==
  CaptureFailed =>
     /\ ret.status = "None"
     /\ CountType(Appended, "error") = 1
     /\ CountType(Appended, "transcription") = 0
     /\ CountType(Appended, "command") = 0
     /\ CountCalls("speaker") = 0
     /\ CountCalls("recognition") = 0
     /\ CountCalls("parser") = 0

\* C3 amended: when capture returns no audio the outcome is None, the only
\* other call is one log_error, which appends exactly one error event when
\* the sink is enabled, initialized and its write succeeds and nothing
\* otherwise; nothing else is appended and no other stage is called
C3_CaptureFailure ==
  CaptureFailed =>
     /\ ret.status = "None"
     /\ Len(calls) = 2
     /\ calls[2].stage = "log_error"
     /\ calls[2].result = "Audio capture failed"
     /\ Appended = LineOf(calls[2], ErrorEvent("Audio capture failed"))
     /\ (initialized["logging"] /\ config.log_enabled) <=> calls[2].io \in {"written", "failed"}
     /\ CountCalls("speaker") = 0
     /\ CountCalls("recognition") = 0
     /\ CountCalls("parser") = 0

\* a capture failure of a fully initialized system whose error line was
\* written to an open sink
C3_Witness ==
  /\ CaptureFailed
  /\ \A a \in AgentNames : initialized[a]
  /\ SinkOpen
  /\ Appended = <<ErrorEvent("Audio capture failed")>>

\* C4: when capture succeeds and the transcription is None or empty, the
\* outcome is None, one error event is handed to the log sink (and is the one
\* line appended when the sink writes it), the parser is not called and no
\* transcription or command event is appended
C4_TranscriptionFailure ==
  TranscriptionFailure =>
     /\ ret.status = "None"
     /\ Len(calls) = 4
     /\ calls[4].stage = "log_error"
     /\ calls[4].result = "Transcription failed"
     /\ Appended = LineOf(calls[4], ErrorEvent("Transcription failed"))
     /\ (initialized["logging"] /\ config.log_enabled) <=> calls[4].io \in {"written", "failed"}
     /\ CountCalls("parser") = 0
     /\ CountCalls("log_transcription") = 0
     /\ CountCalls("log_command") = 0
     /\ CountType(Appended, "transcription") = 0
     /\ CountType(Appended, "command") = 0

\* the recognizer returned an empty text to a system with a loaded catalog
\* and an open sink, and the error line was written
C4_Witness ==
  /\ TranscriptionFailure
  /\ calls[3].result = "empty"
  /\ initialized["parser"]
  /\ Len(commands.items) > 0
  /\ SinkOpen
  /\ Appended = <<ErrorEvent("Transcription failed")>>

\* C5 as stated: when capture returned audio and the transcription a
\* non-empty text, the parser is called and exactly one transcription event
\* followed by one command event, and no error event, is appended
C5_TranscriptionAndCommandAppended ==
  Transcribed =>
     /\ CountCalls("parser") = 1
     /\ Len(Appended) = 2
     /\ Appended[1].type = "transcription"
     /\ Appended[2].type = "command"

\* C5 amended: when capture returned audio and the transcription a non-empty
\* text, the parser is called once; when it returns a Resolution, UNKNOWN or
\* not, the outcome is a result, one transcription event and then one command
\* event are handed to the log sink and no error event, and the lines
\* appended are those of the two events that the sink wrote: both when the
\* sink is enabled, unfiltered and its writes succeed
C5_TranscribedIsLogged ==
  Transcribed =>
     /\ CountCalls("parser") = 1
     /\ Len(calls) >= 5
     /\ calls[4].stage = "log_transcription"
     /\ calls[5].stage = "parser"
     /\ calls[5].result = "value" =>
          /\ ret.status = "value"
          /\ Len(calls) = 6
          /\ calls[6].stage = "log_command"
          /\ calls[6].result = ret.res.command
          /\ CountCalls("log_error") = 0
          /\ Appended = LineOf(calls[4], TranscriptionEvent(result.speaker))
                          \o LineOf(calls[6], CommandEvent(ret.res))
          /\ SinkOpen => /\ calls[4].io \in {"written", "failed"}
                         /\ calls[6].io \in {"written", "failed"}
          /\ ~SinkOpen => calls[4].io \notin {"written", "failed"}
                            \/ calls[6].io \notin {"written", "failed"}

\* an UNKNOWN resolution whose transcription and command lines were both
\* written
C5_Witness ==
  /\ Transcribed
  /\ ret.status = "value"
  /\ ret.res.command = "UNKNOWN"
  /\ Len(Appended) = 2
  /\ Appended[1].type = "transcription"
  /\ Appended[2] = CommandEvent(ret.res)

\* C6: process_voice_command never raises
C6_NeverRaises == Invoked => ret.status # "raised"

\* the stages of an invocation all succeeded
AllSucceeded(cs) ==
  /\ Len(cs) >= 5
  /\ cs[1] = Call("input", "audio", "")
  /\ cs[3] = Call("recognition", "text", "")
  /\ cs[5] = Call("parser", "value", "")

\* C7: an invocation that fails on capture, transcription or parsing changes
\* neither the catalog, the alias table, the parser settings, the registered
\* agents nor any initialized flag, and an invocation that follows a failed
\* one and whose stages all succeed returns a result with its transcription
\* and the resolution of that transcription
C7_Step ==
  ret'.op = "process_voice_command" =>
     /\ ret'.status = "None" =>
          UNCHANGED <<commands, aliases, fuzzy_matching, confidence_threshold,
                      initialized, agents, model, config>>
     /\ (Invoked /\ ret.status = "None" /\ AllSucceeded(calls')) =>
          /\ ret'.status = "value"
          /\ Len(result'.transcription) > 0
          /\ ret'.res = Parser_process(TText(result'.transcription)).res
          /\ UNCHANGED <<commands, aliases, initialized>>

C7_FailureNotFatal == [][C7_Step]_vars

\* a result returned in a session whose log already holds the error line of
\* an earlier, failed invocation
C7_Witness ==
  /\ Invoked
  /\ ret.status = "value"
  /\ AllSucceeded(calls)
  /\ \E i \in 1..mark : log[i].type = "error"

\* C15: a result's success field is true exactly when the resolution's
\* command is not UNKNOWN; a Resolution the parser returned, UNKNOWN or not,
\* is returned as a result and not as None, and no error is handed to the
\* log sink or appended
C15_SuccessIffKnown ==
  Invoked =>
     /\ ret.status = "value" =>
          /\ result.success <=> ret.res.command # "UNKNOWN"
          /\ CountCalls("log_error") = 0
          /\ CountType(Appended, "error") = 0
     /\ (\E i \in 1..Len(calls) : calls[i] = Call("parser", "value", "")) =>
          ret.status = "value"

\* an UNKNOWN resolution returned as a non-success result, its command line
\* written to an open sink
C15_Witness ==
  /\ Invoked
  /\ ret.status = "value"
  /\ ret.res = Unknown(result.transcription)
  /\ ~result.success
  /\ SinkOpen
  /\ Len(Appended) = 2
  /\ Appended[2] = CommandEvent(Unknown(result.transcription))
  /\ CountType(log, "error") = 0

\* the capture stage of the last invocation returned audio
CaptureReturned ==
  /\ Invoked
  /\ Len(calls) >= 1
  /\ calls[1].stage = "input"
  /\ calls[1].result # "None"

\* C16: once capture returned audio the invocation reaches the transcription
\* stage, whatever the state of the speaker stage
C16_SpeakerNeverAborts == CaptureReturned => CountCalls("recognition") = 1

\* the speaker stage of the last invocation was called while disabled, or
\* returned from its except clause
SpeakerOffOrFailed ==
  /\ Invoked
  /\ Len(calls) >= 2
  /\ calls[2].stage = "speaker"
  /\ ~config.speaker_enabled \/ calls[2].io = "error"

\* the transcription events the last invocation appended
AppendedTranscriptions ==
  {Appended[i] : i \in {j \in 1..Len(Appended) : Appended[j].type = "transcription"}}

\* C17 as stated: when speaker tagging is disabled or fails, the speaker
\* field of the result is null and the logged transcription event carries no
\* speaker_id
C17_NullSpeakerTag ==
  SpeakerOffOrFailed =>
     /\ ret.status = "value" => result.speaker = "None"
     /\ \A e \in AppendedTranscriptions : e.speaker_id = ""

\* C17 amended: when speaker tagging is disabled or fails, the invocation
\* goes on to the transcription stage with the speaker_id 'unknown': the
\* speaker field of a result carries it and so does the transcription event
C17_UnknownSpeakerTag ==
  SpeakerOffOrFailed =>
     /\ calls[2].result = "unknown"
     /\ CountCalls("recognition") = 1
     /\ ret.status = "value" => result.speaker = "unknown"
     /\ \A e \in AppendedTranscriptions : e.speaker_id = "unknown"
     /\ \A i \in 1..Len(calls) :
          calls[i].stage = "log_transcription" => calls[i].result = "unknown"

\* a result of an invocation whose speaker stage raised internally, its
\* transcription line written with the speaker_id 'unknown'
C17_Witness ==
  /\ SpeakerOffOrFailed
  /\ config.speaker_enabled
  /\ ret.status = "value"
  /\ result.speaker = "unknown"
  /\ AppendedTranscriptions = {TranscriptionEvent("unknown")}

\* C20: no line of the session log follows a session_end line, so there is at
\* most one session_end and it is the last line
C20_SessionEndIsLast ==
  \A i \in 1..Len(log) : log[i].type = "session_end" => i = Len(log)

\* the stages of a trace of calls, in the order they were called
StagesOf(cs) == [i \in 1..Len(cs) |-> cs[i].stage]

\* two outcomes of process_voice_command agree in what the caller receives
\* and in the stages that were called
SameOutcome(a, b) ==
  /\ a.status = b.status
  /\ a.res = b.res
  /\ a.result = b.result
  /\ StagesOf(a.calls) = StagesOf(b.calls)

\* whatever the two writes do, the outcome on these inputs is the one o
\* reached when both succeed
WritesInvisible(captured, speaker_failed, heard, o) ==
  \A ok1, ok2 \in BOOLEAN :
     (~ok1 \/ ~ok2) =>
        SameOutcome(process_voice_command(captured, speaker_failed, heard, ok1, ok2), o)

\* C21: for every input, process_voice_command returns the same outcome and
\* calls the same stages whether the writes of the log sink succeed or fail.
\* An invocation changes nothing of what the next one reads, so the states
\* left by initialize_agents and shutdown are all the states it starts from
C21_WriteFailuresInvisible ==
  ~Invoked =>
  \A captured \in Captured, speaker_failed \in BOOLEAN, heard \in Heard :
     WritesInvisible(captured, speaker_failed, heard,
                     process_voice_command(captured, speaker_failed, heard, TRUE, TRUE))

\* an invocation that returned a known command although a write of the log
\* sink failed
C21_Witness ==
  /\ Invoked
  /\ ret.status = "value"
  /\ result.success
  /\ \E i \in 1..Len(calls) : calls[i].io = "failed"

\* the four stages, in the order of process_voice_command
StageOrder == <<"input", "speaker", "recognition", "parser">>

\* the stages the last invocation called, without the calls of the log sink
StagesCalled ==
  StagesOf(SelectSeq(calls, LAMBDA c : \E i \in 1..Len(StageOrder) : StageOrder[i] = c.stage))

\* C28: the stages an invocation calls are a prefix of capture, speaker,
\* transcription, resolve; the speaker and the transcription stage are
\* called only when capture returned a value, the resolver only when the
\* transcription stage returned a non-empty text
C28_StagesInOrder ==
  Invoked =>
     /\ Len(StagesCalled) <= Len(StageOrder)
     /\ StagesCalled = SubSeq(StageOrder, 1, Len(StagesCalled))
     /\ CountCalls("speaker") > 0 => CaptureReturned
     /\ CountCalls("recognition") > 0 => CaptureReturned
     /\ CountCalls("parser") > 0 =>
          \E i \in 1..Len(calls) : calls[i] = Call("recognition", "text", "")

\* an invocation that called all four stages
C28_Witness ==
  /\ Invoked
  /\ StagesCalled = StageOrder
  /\ ret.status = "value"

ParserReturnedNone(cs) == \E i \in 1..Len(cs) : cs[i] = Call("parser", "None", "")

\* the trace of calls ends with the parser's None and one log_error
EndsWithParsingError(cs) ==
  /\ Len(cs) >= 2
  /\ cs[Len(cs) - 1] = Call("parser", "None", "")
  /\ cs[Len(cs)].stage = "log_error"
  /\ cs[Len(cs)].result = "Command parsing failed"
  /\ Cardinality({i \in 1..Len(cs) : cs[i].stage = "log_error"}) = 1

IsNone(r) == r.status = "None" /\ r.res = NoRes

\* process returns None on a malformed call
MalformedIsNone ==
  /\ \A t \in {TNone, TEmpty, TNoText} : IsNone(Parser_process(t))
  /\ ~initialized["parser"] => \A t \in Transcriptions : IsNone(Parser_process(t))

C30_Step ==
  (ret'.op = "process_voice_command" /\ ParserReturnedNone(calls')) =>
     /\ IsNone(ret')
     /\ EndsWithParsingError(calls')
     /\ UNCHANGED <<commands, aliases>>

\* C30: process returns None for a None, an empty or a text-less
\* transcription and for every transcription when the agent is not
\* initialized; an invocation of the coordinator whose parser returned None
\* calls log_error once, with 'Command parsing failed', returns None and
\* leaves the catalog and the alias table unchanged
C30_ParserFailsFast == []MalformedIsNone /\ [][C30_Step]_vars

\* an invocation whose parser returned None and that appended the error
C30_Witness ==
  /\ Invoked
  /\ ParserReturnedNone(calls)
  /\ ret.status = "None"
  /\ Appended # <<>>
  /\ Appended[Len(Appended)] = ErrorEvent("Command parsing failed")

\* ------------------------------------------------------------------------
\* Properties of a session of run_interactive
\* ------------------------------------------------------------------------
\* C24: at most one invocation of process_voice_command is in flight, none
\* while the caller is at the prompt, and the events of the session log are
\* appended invocation by invocation: between two events of one invocation
\* there is no event of another
C24_InvocationsNeverOverlap ==
  /\ Len(inflight) <= 1
  /\ pc = "prompt" => inflight = <<>>
  /\ pc = "call" => Len(inflight) = 1 /\ inflight[1].id = begun
  /\ \A i, j \in 1..Len(owners) : i < j => owners[i] <= owners[j]

\* two invocations have returned, both appended events, and the caller is
\* back at the prompt
C24_Witness ==
  /\ pc = "prompt"
  /\ begun = 2
  /\ Len(owners) >= 3
  /\ owners[1] = 1
  /\ owners[Len(owners)] = 2

\* C34: once main has left its try block shutdown is called, nothing
\* follows that call, so it is called exactly once, and after an interrupt
\* of the interactive loop running is False
C34_ShutdownExactlyOnce ==
  /\ Ended ~> (ret.op = "shutdown")
  /\ [][ret.op # "shutdown"]_vars
  /\ [](pc = "stopped" => ~running)

\* the shutdown of a session whose interactive loop was interrupted after an
\* invocation
C34_Witness ==
  /\ ret.op = "shutdown"
  /\ pc = "stopped"
  /\ ~running
  /\ begun >= 1
  /\ Len(calls) = 5

\* ------------------------------------------------------------------------
\* Properties of initialize_agents and shutdown
\* ------------------------------------------------------------------------
\* the position of the first mandatory agent that is not initialized, or
\* that of the speaker agent
FirstFailed(init) ==
  IF \E i \in 1..4 : ~init[AgentOrder[i]]
  THEN CHOOSE i \in 1..4 :
         /\ ~init[AgentOrder[i]]
         /\ \A j \in 1..(i - 1) : init[AgentOrder[j]]
  ELSE 5

\* initialize_agents ended at the agent of position f: the agents up to it
\* are registered, those after it are as they were, and it returned True
\* only when f is the speaker agent
EndedAt(f) ==
  /\ ret'.status = "True" <=> f = 5
  /\ f = 5 => initialized'["speaker"]
  /\ Len(agents') >= f
  /\ agents' = SubSeq(AgentOrder, 1, Len(agents'))
  /\ \A i \in (f + 1)..5 :
       /\ initialized'[AgentOrder[i]] = initialized[AgentOrder[i]]
       /\ (\E j \in 1..Len(agents') : agents'[j] = AgentOrder[i])
            <=> Registered(AgentOrder[i])
  /\ f < 3 => UNCHANGED model
  /\ f < 4 => UNCHANGED <<commands, aliases>>

C36_Step == ret'.op = "initialize_agents" => EndedAt(FirstFailed(initialized'))

\* the result of initialize_agents does not depend on the speaker agent
SpeakerNotMandatory ==
  \A l, i, m, p, sp \in BOOLEAN :
     InitializeReturns(l, i, m, p, sp) <=> (l /\ i /\ m /\ p)

\* C36: initialize_agents registers and initializes the agents in the
\* order logging, input, recognition, parser, speaker and ends at the first
\* of the four mandatory agents that fails, leaving every later agent as it
\* was; it returns True exactly when the four are initialized, whatever the
\* speaker agent returned
C36_InitializeOrder == []SpeakerNotMandatory /\ [][C36_Step]_vars

\* initialize_agents on a new orchestrator returned False at the input
\* agent: logging and input are registered, no other agent is
C36_Witness ==
  /\ ret = Ret("initialize_agents", "False", NoRes)
  /\ agents = <<"logging", "input">>
  /\ initialized["logging"]
  /\ ~initialized["input"]

\* the loop called the shutdown of every registered agent once, in
\* registration order
EachOnceInOrder(cs) ==
  /\ Len(cs) = Len(agents)
  /\ \A i \in 1..Len(cs) : cs[i].stage = "shutdown" /\ cs[i].result = agents[i]

\* C35: whichever agents' shutdown raises, shutdown calls the shutdown of
\* every registered agent once, in registration order; the call returns
\* None, after it the recognition model is released and the parser's tables
\* are empty when those agents are registered
C35_ShutdownReachesEveryAgent ==
  ret.op = "shutdown" =>
     /\ ret.status = "None"
     /\ EachOnceInOrder(calls)
     /\ \A raised \in SUBSET AgentNames : EachOnceInOrder(ShutdownCalls(agents, raised))
     /\ Registered("recognition") => ~model
     /\ Registered("parser") => commands = EmptyDict /\ aliases = EmptyDict

\* a shutdown of an orchestrator with all five agents registered
C35_Witness ==
  /\ ret.op = "shutdown"
  /\ Len(calls) = 5
  /\ calls[1].result = "logging"
  /\ calls[5].result = "speaker"
  /\ log # <<>>
  /\ log[Len(log)].type = "session_end"

\* the events handed to the log sink
SampleEvents ==
  {TranscriptionEvent("speaker_1"), CommandEvent([command |-> "STOP"]),
   ErrorEvent("Transcription failed"), Event("system_event", "", "", "")}

\* C37: with log_transcripts false the log holds no transcription event and
\* with log_commands false no command event; an enabled, initialized sink
\* reports a filtered event as handled and appends nothing, and appends
\* every event of another type whatever the filters are
C37_FiltersOwnTypeOnly ==
  /\ ~config.log_transcripts => CountType(log, "transcription") = 0
  /\ ~config.log_commands => CountType(log, "command") = 0
  /\ (initialized["logging"] /\ config.log_enabled) =>
       \A event \in SampleEvents :
          IF \/ event.type = "transcription" /\ ~config.log_transcripts
             \/ event.type = "command" /\ ~config.log_commands
          THEN Logging_process(log, event, TRUE) = Logged(log, TRUE, "filtered")
          ELSE Logging_process(log, event, TRUE) = Logged(Append(log, event), TRUE, "written")

\* both filters are set, and the log of the session holds its start, the
\* error event of an invocation and its end
C37_Witness ==
  /\ ~config.log_transcripts
  /\ ~config.log_commands
  /\ ret.op = "shutdown"
  /\ Len(log) = 3
  /\ log[1].type = "session_start"
  /\ log[2].type = "error"
  /\ log[3].type = "session_end"

\* C38: with enabled false the log stays empty, process returns False for
\* every event and appends nothing, and the logging agent, once
\* constructed, is initialized
C38_DisabledSinkWritesNothing ==
  ~config.log_enabled =>
     /\ log = <<>>
     /\ \A event \in SampleEvents, ok \in BOOLEAN :
          Logging_process(log, event, ok) = Logged(log, FALSE, "off")
     /\ Registered("logging") => initialized["logging"]

\* an invocation on a disabled sink resolved a command: both of its calls
\* of the sink returned without a line
C38_Witness ==
  /\ ~config.log_enabled
  /\ Invoked
  /\ ret.status = "value"
  /\ \E i, j \in 1..Len(calls) :
       /\ calls[i].stage = "log_transcription" /\ calls[i].io = "off"
       /\ calls[j].stage = "log_command" /\ calls[j].io = "off"
  /\ log = <<>>

====
